---- MODULE Spec2Model ----
(***************************************************************************)
(* Model of the ING CSV -> hledger journal importer (process_ing.py) and   *)
(* of the JournalEntry class it shares with util.py.                       *)
(*                                                                         *)
(* Amounts are Python floats in the source; the model keeps them as        *)
(* integer cents (9,50 EUR = 950), which is exact for the finite           *)
(* two-decimal amounts a bank statement holds.                             *)
(***************************************************************************)
EXTENDS Integers, Sequences, FiniteSets, TLC

(***************************************************************************)
(* Bounds of the model.                                                    *)
(***************************************************************************)
\* largest number of rows over all input files together
MaxRows == 2
\* largest number of program runs in one behaviour
MaxRuns == 3
\* largest absolute posting value (cents) drawn for a free-standing entry
MaxPosting == 2
\* largest number of rows of the statement of a resumed import
MaxFileRows == 6
\* largest number of rows of a statement imported with the user at the prompts
MaxPromptRows == 2

(***************************************************************************)
(* Text helpers: Python str operations used by the source.                 *)
(***************************************************************************)
CharAt(s, i) == SubSeq(s, i, i)

UpperToLower ==
    [A |-> "a", B |-> "b", C |-> "c", D |-> "d", E |-> "e", F |-> "f",
     G |-> "g", H |-> "h", I |-> "i", J |-> "j", K |-> "k", L |-> "l",
     M |-> "m", N |-> "n", O |-> "o", P |-> "p", Q |-> "q", R |-> "r",
     S |-> "s", T |-> "t", U |-> "u", V |-> "v", W |-> "w", X |-> "x",
     Y |-> "y", Z |-> "z"]

LowerChar(c) == IF c \in DOMAIN UpperToLower THEN UpperToLower[c] ELSE c

DigitChars == {"0", "1", "2", "3", "4", "5", "6", "7", "8", "9"}

LowerLetters ==
    {"a", "b", "c", "d", "e", "f", "g", "h", "i", "j", "k", "l", "m",
     "n", "o", "p", "q", "r", "s", "t", "u", "v", "w", "x", "y", "z"}

\* characters matched by \s and removed by str.strip()
Whitespace == {" ", "\t", "\n", "\r"}

\* \w of the re module, on a lower-cased character
IsWordChar(c) == c \in LowerLetters \cup DigitChars \cup {"_"}

DigitVal(c) ==
    CASE c = "0" -> 0 [] c = "1" -> 1 [] c = "2" -> 2 [] c = "3" -> 3
      [] c = "4" -> 4 [] c = "5" -> 5 [] c = "6" -> 6 [] c = "7" -> 7
      [] c = "8" -> 8 [] c = "9" -> 9

DigitChar(d) ==
    CASE d = 0 -> "0" [] d = 1 -> "1" [] d = 2 -> "2" [] d = 3 -> "3"
      [] d = 4 -> "4" [] d = 5 -> "5" [] d = 6 -> "6" [] d = 7 -> "7"
      [] d = 8 -> "8" [] d = 9 -> "9"

RECURSIVE NatToStr(_)
NatToStr(n) ==
    IF n < 10 THEN DigitChar(n)
    ELSE NatToStr(n \div 10) \o DigitChar(n % 10)

\* '{}'.format(n) for an int
IntToStr(n) == IF n < 0 THEN "-" \o NatToStr(0 - n) ELSE NatToStr(n)

AllDigits(s) == Len(s) > 0 /\ \A i \in 1..Len(s) : CharAt(s, i) \in DigitChars

RECURSIVE DigitsToNat(_)
DigitsToNat(s) ==
    IF Len(s) = 0 THEN 0
    ELSE 10 * DigitsToNat(SubSeq(s, 1, Len(s) - 1)) + DigitVal(CharAt(s, Len(s)))

\* str.strip(): drop leading and trailing whitespace
RECURSIVE Strip(_)
Strip(s) ==
    IF Len(s) = 0 THEN s
    ELSE IF CharAt(s, 1) \in Whitespace THEN Strip(SubSeq(s, 2, Len(s)))
    ELSE IF CharAt(s, Len(s)) \in Whitespace THEN Strip(SubSeq(s, 1, Len(s) - 1))
    ELSE s

\* str.startswith(prefix)
StartsWith(s, prefix) ==
    Len(prefix) <= Len(s) /\ SubSeq(s, 1, Len(prefix)) = prefix

\* positions of the character c in s
Positions(s, c) == {i \in 1..Len(s) : CharAt(s, i) = c}

Min(S) == CHOOSE x \in S : \A y \in S : x <= y

\* str.split(sep)[0] and str.split(sep)[1] for a one-character separator
SplitFirst(s, sep) ==
    IF Positions(s, sep) = {} THEN s
    ELSE SubSeq(s, 1, Min(Positions(s, sep)) - 1)

SplitSecond(s, sep) ==
    LET rest == SubSeq(s, Min(Positions(s, sep)) + 1, Len(s))
    IN  SplitFirst(rest, sep)

\* str.replace(old, new) for a one-character old
RECURSIVE Replace(_, _, _)
Replace(s, old, new) ==
    IF Len(s) = 0 THEN ""
    ELSE (IF CharAt(s, 1) = old THEN new ELSE CharAt(s, 1))
         \o Replace(SubSeq(s, 2, Len(s)), old, new)

\* int(text) for an optionally signed run of digits
ParseInt(s) ==
    IF StartsWith(s, "-") THEN 0 - DigitsToNat(SubSeq(s, 2, Len(s)))
    ELSE DigitsToNat(s)

(***************************************************************************)
(* Row parsing (CSVProcessor.process, the reader loop).                    *)
(***************************************************************************)
\* float(text) on a plain decimal: optional sign, digits, optional point and
\* digits; the value is returned in cents.  The amount texts of the model
\* have at most two decimals.
ParseFloat(text) ==
    LET t     == Strip(text)
        neg   == StartsWith(t, "-")
        body  == IF neg \/ StartsWith(t, "+") THEN SubSeq(t, 2, Len(t)) ELSE t
        whole == SplitFirst(body, ".")
        frac  == IF Positions(body, ".") = {} THEN ""
                 ELSE SubSeq(body, Min(Positions(body, ".")) + 1, Len(body))
        wellFormed ==
            /\ Len(whole) + Len(frac) > 0
            /\ \A i \in 1..Len(whole) : CharAt(whole, i) \in DigitChars
            /\ \A i \in 1..Len(frac) : CharAt(frac, i) \in DigitChars
        cents == 100 * DigitsToNat(whole)
                 + DigitsToNat(SubSeq(frac \o "00", 1, 2))
    IN  IF wellFormed
        THEN [ok |-> TRUE, value |-> IF neg THEN 0 - cents ELSE cents]
        ELSE [ok |-> FALSE, value |-> 0]

\* float(row['Bedrag (EUR)'].replace('.', '').replace(',', '.')), negated for 'Af'
ParseAmount(row) ==
    LET f == ParseFloat(Replace(Replace(row.Bedrag, ".", ""), ",", "."))
    IN  IF f.ok /\ row.AfBij = "Af"
        THEN [ok |-> TRUE, value |-> 0 - f.value]
        ELSE f

\* parse_date(row['Datum']) on the yyyymmdd dates of an ING export; the date
\* is kept as the number yyyymmdd, which orders as the datetime does.
ParseDate(text) ==
    LET n  == DigitsToNat(text)
        mm == (n \div 100) % 100
        dd == n % 100
    IN  IF Len(text) = 8 /\ AllDigits(text) /\ mm \in 1..12 /\ dd \in 1..31
        THEN [ok |-> TRUE, value |-> n]
        ELSE [ok |-> FALSE, value |-> 0]

\* date.year
Year(date) == date \div 10000

\* the tuple appended to raw_entries for one row
RawEntry(row) ==
    [date    |-> ParseDate(row.Datum).value,
     amount  |-> ParseAmount(row).value,
     name    |-> row.Naam,
     comment |-> row.Mededelingen]

\* a test that takes every row as parsed
RowParses_Any(row) == TRUE

RowParses(row) == ParseDate(row.Datum).ok /\ ParseAmount(row).ok

RECURSIVE RawEntries(_)
RawEntries(rows) ==
    IF Len(rows) = 0 THEN << >>
    ELSE << RawEntry(Head(rows)) >> \o RawEntries(Tail(rows))

\* sorted(raw_entries, key=lambda e: e[0]): a stable sort by date
RECURSIVE InsertByDate(_, _)
InsertByDate(sortedSeq, e) ==
    IF Len(sortedSeq) = 0 THEN << e >>
    ELSE IF sortedSeq[Len(sortedSeq)].date <= e.date THEN Append(sortedSeq, e)
    ELSE Append(InsertByDate(SubSeq(sortedSeq, 1, Len(sortedSeq) - 1), e),
                sortedSeq[Len(sortedSeq)])

RECURSIVE SortedByDate(_)
SortedByDate(es) ==
    IF Len(es) = 0 THEN << >>
    ELSE InsertByDate(SortedByDate(SubSeq(es, 1, Len(es) - 1)), es[Len(es)])

(***************************************************************************)
(* Account taxonomy (the three Enum classes).  A member is modelled by its *)
(* label.                                                                  *)
(***************************************************************************)
BANK_PAYMENT_ACCOUNT == "Assets:Bank:Payment account"
BANK_SAVINGS == "Assets:Bank:Savings"
BANK_CREDITCARD == "Assets:Bank:Creditcard"

AssetAccounts == {BANK_PAYMENT_ACCOUNT, BANK_SAVINGS, BANK_CREDITCARD}

FOOD_AND_GROCERIES == "Expenses:Food and groceries"
ALCOHOL == "Expenses:Alcohol"
PHONE_SUBSCRIPTION == "Expenses:Phone:Subscription"
DONATIONS == "Expenses:Donations"
PUBLIC_TRANSPORT == "Expenses:Public transport"
DOMAIN_NAME == "Expenses:Domain name"
RENT == "Expenses:Room:Rent"
HEALTH_INSURANCE == "Expenses:Insurance:Health"
LIABILITY_INSURANCE == "Expenses:Insurance:Liability"
OTHER_INSURANCE == "Expenses:Insurance:Other"
SPORT == "Expenses:Sport"
HAIRDRESSER == "Expenses:Hairdresser"
TUITION_FEES == "Expenses:Tuition fees"
TAX == "Expenses:Tax"
MISC == "Expenses:Miscellaneous"

ExpenseAccounts ==
    {FOOD_AND_GROCERIES, ALCOHOL, PHONE_SUBSCRIPTION, DONATIONS,
     PUBLIC_TRANSPORT, DOMAIN_NAME, RENT, HEALTH_INSURANCE,
     LIABILITY_INSURANCE, OTHER_INSURANCE, SPORT, HAIRDRESSER, TUITION_FEES,
     TAX, MISC}

SALARY_SSL == "Income:Salary:SSL Leiden"
SALARY_HZFP == "Income:Salary:Het Zwarte Fietsenplan"
RENT_ALLOWANCE == "Income:Allowance:Rent"
HEALTH_ALLOWANCE == "Income:Allowance:Health"
GIFTS == "Income:Gifts"
REPAYMENTS == "Income:Repayments"
BOARD_GRANT == "Income:Board grant"
STUDENT_GRANTS_LOANS == "Income:DUO student grants and loans"
INCOME_OTHER == "Income:Other"

IncomeAccounts ==
    {SALARY_SSL, SALARY_HZFP, RENT_ALLOWANCE, HEALTH_ALLOWANCE, GIFTS,
     REPAYMENTS, BOARD_GRANT, STUDENT_GRANTS_LOANS, INCOME_OTHER}

\* the keys of accounts_dict
all_accounts == AssetAccounts \cup ExpenseAccounts \cup IncomeAccounts

(***************************************************************************)
(* JournalEntry.  An Account is the namedtuple (name, value); an absent    *)
(* account (None) is the record None.                                      *)
(***************************************************************************)
None == [name |-> "None", value |-> 0]

Account(name, value) == [name |-> name, value |-> value]

IsPresent(account) == account # None

\* JournalEntry(date, description): no accounts, no tags
NewJournalEntry(date, description) ==
    [date |-> date, description |-> description,
     account1 |-> None, account2 |-> None,
     account3 |-> None, account4 |-> None,
     tags |-> << >>]

\* the accounts of an entry in rendering order
AccountSlots(e) == << e.account1, e.account2, e.account3, e.account4 >>

\* a _check that adds up account1 and account2 only
CheckError_FirstTwo(e) ==
    IF ~(IsPresent(e.account1) /\ IsPresent(e.account2))
    THEN "At least account1 and account2 need to be present"
    ELSE IF e.account1.value + e.account2.value # 0
    THEN "Sum of account* values is not equal to zero."
    ELSE ""

\* JournalEntry._check: the message of the ValueError it raises, or "" when
\* it returns normally
CheckError(e) ==
    IF ~(IsPresent(e.account1) /\ IsPresent(e.account2))
    THEN "At least account1 and account2 need to be present"
    ELSE LET s == e.account1.value + e.account2.value
                  + (IF IsPresent(e.account3) THEN e.account3.value ELSE 0)
                  + (IF IsPresent(e.account4) THEN e.account4.value ELSE 0)
         IN  IF s # 0 THEN "Sum of account* values is not equal to zero."
             ELSE ""

\* JournalEntry.journal_str: the error raised by _check, or the rendered
\* text, kept as its parts (header line, tags, one line per present account)
journal_str(e) ==
    IF CheckError(e) # ""
    THEN [ok |-> FALSE, error |-> CheckError(e)]
    ELSE [ok |-> TRUE,
          date |-> e.date,
          description |-> e.description,
          tags |-> e.tags,
          postings |-> SelectSeq(AccountSlots(e), IsPresent)]

(***************************************************************************)
(* CSVProcessor.match: re.compile('.*(' + '|'.join(args) + ').*',          *)
(* re.IGNORECASE).match(s).  An argument is a set of alternatives; an      *)
(* alternative is a body in which "." stands for any character but a       *)
(* newline, optionally enclosed in \b...\b.  Texts are compared as tuples *)
(* of lower-cased characters.                                              *)
(***************************************************************************)
\* the characters of a text, lower-cased (re.IGNORECASE)
FoldCase(text) == [i \in 1..Len(text) |-> LowerChar(CharAt(text, i))]

\* a plain argument such as 'Albert Heijn' or 'Sportexpl.mij'
Lit(text) == {[body |-> FoldCase(text), wb |-> FALSE]}

\* an argument of the form r'\btext\b'
Word(text) == {[body |-> FoldCase(text), wb |-> TRUE]}

\* is there a \b between positions i - 1 and i of the folded text d
BoundaryAt(d, i) ==
    LET before == i > 1 /\ IsWordChar(d[i - 1])
        after  == i <= Len(d) /\ IsWordChar(d[i])
    IN  before # after

\* does alternative p match the folded text d at position i
MatchAt(d, p, i) ==
    /\ \A k \in 1..Len(p.body) :
          IF p.body[k] = "." THEN d[i + k - 1] # "\n"
          ELSE p.body[k] = d[i + k - 1]
    /\ p.wb => BoundaryAt(d, i) /\ BoundaryAt(d, i + Len(p.body))

\* the leading .* cannot cross a newline: the match lies in the first line
FirstLine(s) == SplitFirst(s, "\n")

match(s, args) ==
    LET d == FoldCase(FirstLine(s))
    IN  \E p \in args :
          \E i \in 1..(Len(d) - Len(p.body) + 1) : MatchAt(d, p, i)

(***************************************************************************)
(* The arguments of the match calls of convert_transaction, in source      *)
(* order.                                                                  *)
(***************************************************************************)
food_keywords ==
    Lit("eten") \cup Lit("gnocchi") \cup Lit("pasta") \cup Lit("wraps")
    \cup Lit("thais") \cup Lit("indiaas") \cup Lit("roti") \cup Lit("pizza")
    \cup Lit("lasagne") \cup Lit("risotto") \cup Lit("chinees")
    \cup Lit("sushi") \cup Lit("wok")

\* 'McDonald(?:\'|\s)?s'
McDonaldsArg ==
    Lit("McDonalds") \cup Lit("McDonald's")
    \cup UNION {Lit("McDonald" \o w \o "s") : w \in Whitespace \ {"\n"}}

\* r"Julia'?s"
JuliasArg == Lit("Julias") \cup Lit("Julia's")

SavingsArgs == Lit("spaarrekening")

FoodShopArgs ==
    Lit("Albert Heijn") \cup Lit("AH to Go") \cup Lit("AH togo")
    \cup Lit("AH Station") \cup Lit("Lidl") \cup Lit("Jumbo") \cup Lit("Dirk")
    \cup Lit("Spar sciencepark") \cup Lit("UvAScience") \cup Lit("Fuameh")
    \cup Lit("Smullers") \cup McDonaldsArg \cup Word("McD")
    \cup Lit("Broodzaak") \cup JuliasArg \cup Lit("Thuisbezorgd")
    \cup food_keywords

ViaArgs == Lit("VERENIGING INFORMATIEWETENSCH.AMSTERDAM")
PosArgs == Lit("Afschrijving POS")

AlcoholArgs ==
    Lit("Maslow") \cup Lit("DE HEEREN VAN AEMS") \cup Lit("Gall & Gall")
    \cup Lit("Jeda Horeca") \cup Lit("HOTSHOTS") \cup Lit("Bier")
    \cup Lit("Wodka")

CreditcardArgs == Lit("Incasso Creditcard")
SimyoArgs == Lit("SIMYO")
UnicefArgs == Lit("UNICEF")
NsArgs == Word("NS")
TransipArgs == Lit("Transip")
DeKeyArgs == Lit("De Key")
HuurArgs == Lit("huur")
ZorgverzekeringArgs == Lit("Zorgverzekering")
VerzekeringArgs == Lit("Verzekering") \cup Lit("Verzekeraar")
AegonArgs == Lit("AEGON")
SportArgs == Lit("Sportexpl.mij")
KappersArgs == Lit("Basic Kappers")
BelastingArgs == Lit("Belastingdienst")
UvaArgs == Lit("Universiteit van Amsterdam")
BetaalverzoekArgs == Lit("Betaalverzoek")
CafeArgs == Word("Cafe") \cup Lit("bier")

SslArgs == Lit("ST.STUDIEBEGELEIDING LDN")
HzfpArgs == Lit("HET ZWARTE FIETSENPLAN")
DuoArgs ==
    Word("DUO") \cup Lit("Dienst Uitvoering Onderwijs")
    \cup Lit("Studiefinanciering")
HuurtoeslagArgs == Lit("Huurtoeslag")
ZorgtoeslagArgs == Lit("Zorgtoeslag")

\* abs(amount) >= 1900 and amount != 275, in cents
TuitionThreshold == 190000
BoardGrantAmount == 27500

Abs(n) == IF n < 0 THEN 0 - n ELSE n

Decision(account2, ask, unknown) ==
    [account2 |-> account2, ask |-> ask, unknown |-> unknown]

(***************************************************************************)
(* The if/elif chain of convert_transaction: account2 and the ask and      *)
(* unknown flags it leaves for a transaction.                              *)
(***************************************************************************)
ClassifyExpense(amount, description) ==
    IF match(description, FoodShopArgs)
    THEN Decision(FOOD_AND_GROCERIES, FALSE, FALSE)
    ELSE IF match(description, ViaArgs)
    THEN Decision(FOOD_AND_GROCERIES, ~match(description, PosArgs), FALSE)
    ELSE IF match(description, AlcoholArgs)
    THEN Decision(ALCOHOL, FALSE, FALSE)
    ELSE IF match(description, CreditcardArgs)
    THEN Decision(BANK_CREDITCARD, FALSE, FALSE)
    ELSE IF match(description, SimyoArgs)
    THEN Decision(PHONE_SUBSCRIPTION, FALSE, FALSE)
    ELSE IF match(description, UnicefArgs)
    THEN Decision(DONATIONS, FALSE, FALSE)
    ELSE IF match(description, NsArgs)
    THEN Decision(PUBLIC_TRANSPORT, FALSE, FALSE)
    ELSE IF match(description, TransipArgs)
    THEN Decision(DOMAIN_NAME, FALSE, FALSE)
    ELSE IF match(description, DeKeyArgs) /\ match(description, HuurArgs)
    THEN Decision(RENT, FALSE, FALSE)
    ELSE IF match(description, ZorgverzekeringArgs)
    THEN Decision(HEALTH_INSURANCE, FALSE, FALSE)
    ELSE IF match(description, VerzekeringArgs)
    THEN Decision(OTHER_INSURANCE, FALSE, FALSE)
    ELSE IF match(description, AegonArgs)
    THEN Decision(LIABILITY_INSURANCE, FALSE, FALSE)
    ELSE IF match(description, SportArgs)
    THEN Decision(SPORT, FALSE, FALSE)
    ELSE IF match(description, KappersArgs)
    THEN Decision(HAIRDRESSER, FALSE, FALSE)
    ELSE IF match(description, BelastingArgs)
    THEN Decision(TAX, FALSE, FALSE)
    ELSE IF match(description, UvaArgs) /\ Abs(amount) >= TuitionThreshold
    THEN Decision(TUITION_FEES, FALSE, FALSE)
    ELSE IF match(description, BetaalverzoekArgs)
    THEN Decision(FOOD_AND_GROCERIES, TRUE, FALSE)
    ELSE IF match(description, CafeArgs)
    THEN Decision(ALCOHOL, TRUE, FALSE)
    ELSE Decision(MISC, FALSE, TRUE)

ClassifyIncome(amount, description) ==
    IF match(description, SslArgs)
    THEN Decision(SALARY_SSL, FALSE, FALSE)
    ELSE IF match(description, HzfpArgs)
    THEN Decision(SALARY_HZFP, FALSE, FALSE)
    ELSE IF match(description, DuoArgs)
    THEN Decision(STUDENT_GRANTS_LOANS, FALSE, FALSE)
    ELSE IF match(description, HuurtoeslagArgs)
    THEN Decision(RENT_ALLOWANCE, FALSE, FALSE)
    ELSE IF match(description, ZorgtoeslagArgs)
    THEN Decision(HEALTH_ALLOWANCE, FALSE, FALSE)
    ELSE IF match(description, UvaArgs)
    THEN Decision(BOARD_GRANT, amount # BoardGrantAmount, FALSE)
    ELSE IF match(description, BetaalverzoekArgs)
            /\ match(description, food_keywords)
    THEN Decision(FOOD_AND_GROCERIES, FALSE, FALSE)
    ELSE IF match(description, food_keywords)
    THEN Decision(FOOD_AND_GROCERIES, TRUE, FALSE)
    ELSE Decision(INCOME_OTHER, FALSE, TRUE)

\* a chain that tries the savings test last instead of first
Classify_SavingsLast(amount, description) ==
    LET d == IF amount < 0 THEN ClassifyExpense(amount, description)
             ELSE ClassifyIncome(amount, description)
    IN  IF d.unknown /\ match(description, SavingsArgs)
        THEN Decision(BANK_SAVINGS, FALSE, FALSE)
        ELSE d

\* a chain that takes an amount of 0 for an outflow
Classify_ZeroIsExpense(amount, description) ==
    IF match(description, SavingsArgs)
    THEN Decision(BANK_SAVINGS, FALSE, FALSE)
    ELSE IF amount <= 0
    THEN ClassifyExpense(amount, description)
    ELSE ClassifyIncome(amount, description)

Classify(amount, description) ==
    IF match(description, SavingsArgs)
    THEN Decision(BANK_SAVINGS, FALSE, FALSE)
    ELSE IF amount < 0
    THEN ClassifyExpense(amount, description)
    ELSE ClassifyIncome(amount, description)

\* description = '{} - {}'.format(name, comment)
Description(name, comment) == name \o " - " \o comment

(***************************************************************************)
(* The same chain as a numbered list of rules, in source order: the        *)
(* condition under which the branch of rule k is entered when it is        *)
(* reached, and what the branch assigns.  Rules 20 and 29 are the else     *)
(* branches.                                                               *)
(***************************************************************************)
Rules == 1..29

RulePredicate(k, amount, d) ==
    CASE k = 1 -> match(d, SavingsArgs)
      [] k = 2 -> amount < 0 /\ match(d, FoodShopArgs)
      [] k = 3 -> amount < 0 /\ match(d, ViaArgs)
      [] k = 4 -> amount < 0 /\ match(d, AlcoholArgs)
      [] k = 5 -> amount < 0 /\ match(d, CreditcardArgs)
      [] k = 6 -> amount < 0 /\ match(d, SimyoArgs)
      [] k = 7 -> amount < 0 /\ match(d, UnicefArgs)
      [] k = 8 -> amount < 0 /\ match(d, NsArgs)
      [] k = 9 -> amount < 0 /\ match(d, TransipArgs)
      [] k = 10 -> amount < 0 /\ match(d, DeKeyArgs) /\ match(d, HuurArgs)
      [] k = 11 -> amount < 0 /\ match(d, ZorgverzekeringArgs)
      [] k = 12 -> amount < 0 /\ match(d, VerzekeringArgs)
      [] k = 13 -> amount < 0 /\ match(d, AegonArgs)
      [] k = 14 -> amount < 0 /\ match(d, SportArgs)
      [] k = 15 -> amount < 0 /\ match(d, KappersArgs)
      [] k = 16 -> amount < 0 /\ match(d, BelastingArgs)
      [] k = 17 -> /\ amount < 0
                   /\ match(d, UvaArgs)
                   /\ Abs(amount) >= TuitionThreshold
      [] k = 18 -> amount < 0 /\ match(d, BetaalverzoekArgs)
      [] k = 19 -> amount < 0 /\ match(d, CafeArgs)
      [] k = 20 -> amount < 0
      [] k = 21 -> amount >= 0 /\ match(d, SslArgs)
      [] k = 22 -> amount >= 0 /\ match(d, HzfpArgs)
      [] k = 23 -> amount >= 0 /\ match(d, DuoArgs)
      [] k = 24 -> amount >= 0 /\ match(d, HuurtoeslagArgs)
      [] k = 25 -> amount >= 0 /\ match(d, ZorgtoeslagArgs)
      [] k = 26 -> amount >= 0 /\ match(d, UvaArgs)
      [] k = 27 -> /\ amount >= 0
                   /\ match(d, BetaalverzoekArgs)
                   /\ match(d, food_keywords)
      [] k = 28 -> amount >= 0 /\ match(d, food_keywords)
      [] k = 29 -> amount >= 0

RuleOutcome(k, amount, d) ==
    CASE k = 1 -> Decision(BANK_SAVINGS, FALSE, FALSE)
      [] k = 2 -> Decision(FOOD_AND_GROCERIES, FALSE, FALSE)
      [] k = 3 -> Decision(FOOD_AND_GROCERIES, ~match(d, PosArgs), FALSE)
      [] k = 4 -> Decision(ALCOHOL, FALSE, FALSE)
      [] k = 5 -> Decision(BANK_CREDITCARD, FALSE, FALSE)
      [] k = 6 -> Decision(PHONE_SUBSCRIPTION, FALSE, FALSE)
      [] k = 7 -> Decision(DONATIONS, FALSE, FALSE)
      [] k = 8 -> Decision(PUBLIC_TRANSPORT, FALSE, FALSE)
      [] k = 9 -> Decision(DOMAIN_NAME, FALSE, FALSE)
      [] k = 10 -> Decision(RENT, FALSE, FALSE)
      [] k = 11 -> Decision(HEALTH_INSURANCE, FALSE, FALSE)
      [] k = 12 -> Decision(OTHER_INSURANCE, FALSE, FALSE)
      [] k = 13 -> Decision(LIABILITY_INSURANCE, FALSE, FALSE)
      [] k = 14 -> Decision(SPORT, FALSE, FALSE)
      [] k = 15 -> Decision(HAIRDRESSER, FALSE, FALSE)
      [] k = 16 -> Decision(TAX, FALSE, FALSE)
      [] k = 17 -> Decision(TUITION_FEES, FALSE, FALSE)
      [] k = 18 -> Decision(FOOD_AND_GROCERIES, TRUE, FALSE)
      [] k = 19 -> Decision(ALCOHOL, TRUE, FALSE)
      [] k = 20 -> Decision(MISC, FALSE, TRUE)
      [] k = 21 -> Decision(SALARY_SSL, FALSE, FALSE)
      [] k = 22 -> Decision(SALARY_HZFP, FALSE, FALSE)
      [] k = 23 -> Decision(STUDENT_GRANTS_LOANS, FALSE, FALSE)
      [] k = 24 -> Decision(RENT_ALLOWANCE, FALSE, FALSE)
      [] k = 25 -> Decision(HEALTH_ALLOWANCE, FALSE, FALSE)
      [] k = 26 -> Decision(BOARD_GRANT, amount # BoardGrantAmount, FALSE)
      [] k = 27 -> Decision(FOOD_AND_GROCERIES, FALSE, FALSE)
      [] k = 28 -> Decision(FOOD_AND_GROCERIES, TRUE, FALSE)
      [] k = 29 -> Decision(INCOME_OTHER, FALSE, TRUE)

\* the else branches of the two chains
FallbackRules == {20, 29}

(***************************************************************************)
(* Inputs.                                                                 *)
(***************************************************************************)
\* names of the input files (input_csv.name); the first is a prefix of the
\* second
FileNames == {"jan.csv", "jan.csv.old"}

Row(datum, bedrag, afbij, naam, mededelingen) ==
    [Datum |-> datum, Bedrag |-> bedrag, AfBij |-> afbij,
     Naam |-> naam, Mededelingen |-> mededelingen]

\* rows of the statements of the import runs: the classifier decides both
\* without a question; the later one comes first in a file, as in an export
ImportRows ==
    {Row("20230105", "9,50", "Af", "Jumbo", ""),
     Row("20230103", "25,00", "Af", "Lidl", "")}

\* names and comments of the rows given to convert_transaction
ConvertTexts ==
    {<< "Albert Heijn 1234", "" >>,
     << "Zilveren Kruis", "Zorgverzekering" >>,
     << "Pizzeria", "pizza verzekering" >>,
     << "OHRA", "Verzekering" >>,
     << "VERENIGING INFORMATIEWETENSCH AMSTERDAM", "borrel" >>,
     << "Cafe Maslow", "" >>,
     << "Cafe de Jaren", "pin" >>,
     << "NS Groep", "OV" >>,
     << "TransIP BV", "" >>,
     << "De Key", "huur" >>,
     << "Universiteit van Amsterdam", "" >>,
     << "J Jansen", "Betaalverzoek" >>,
     << "J Jansen", "Betaalverzoek sushi" >>,
     << "J Jansen", "sushi" >>,
     << "Bol.com", "order 1" >>,
     << "ING", "Oranje Spaarrekening" >>,
     << "Lidl", "naar spaarrekening" >>,
     << "DUO", "Studiefinanciering" >>,
     << "Belastingdienst", "Huurtoeslag" >>,
     << "AEGON", "polis" >>,
     << "ST STUDIEBEGELEIDING LDN", "" >>,
     << "McDonald's", "" >>,
     << "Incasso Creditcard", "" >>,
     << "", "" >>,
     << "DUO", "naar Spaarrekening" >>,
     << "ING", "Overboeking\nnaar spaarrekening" >>}

ConvertAmounts == {"9,50", "1.900,00", "275,00", "0,00"}

ConvertRows ==
    {Row("20230105", b, d, t[1], t[2]) :
        b \in ConvertAmounts, d \in {"Af", "Bij"}, t \in ConvertTexts}

SeqsUpTo(S, n) == UNION {[1..k -> S] : k \in 0..n}

RECURSIVE SumOver(_, _)
SumOver(f, D) ==
    IF D = {} THEN 0
    ELSE LET x == CHOOSE y \in D : TRUE IN f[x] + SumOver(f, D \ {x})

TotalRows(fs) == SumOver([f \in FileNames |-> Len(fs[f])], FileNames)

\* what the user can type at the account prompt: a label of the taxonomy, a
\* blank answer, and answers the validator rejects
TypedAccounts == {TAX, GIFTS, "", " ", "Expenses:Bogus", " " \o TAX}

(***************************************************************************)
(* State.                                                                  *)
(***************************************************************************)
VARIABLES
    input,            \* the rows of each input file
    tracking,         \* the file .import_csv_tracking: existence and lines
    journal,          \* the output journal on disk
    jbuf,             \* what was written to output_journal and not flushed
    pc,               \* position of the program
    runs,             \* number of runs started
    prev,             \* the run before the current one: file, outcome, rows;
                      \* and the cursor the current run read at its start
    import_filename,  \* TrackingFile.import_filename
    current_id,       \* TrackingFile._current_id
    raw_entries,      \* raw_entries of process
    remaining,        \* what the for loop of process has still to visit
    transaction_id,   \* transaction_id of process
    unknown_count,    \* CSVProcessor.unknown_count
    entry,            \* the JournalEntry of convert_transaction
    account2,         \* account2 of convert_transaction
    ask,              \* ask of convert_transaction
    unknown,          \* unknown of convert_transaction
    error_message,    \* the validator's message shown at the account prompt
    account_str,      \* account_str of convert_transaction
    rendered          \* result of a free-standing journal_str call

vars ==
    << input, tracking, journal, jbuf, pc, runs, prev, import_filename,
       current_id, raw_entries, remaining, transaction_id, unknown_count,
       entry, account2, ask, unknown, error_message, account_str,
       rendered >>

files == << input, tracking, journal, jbuf >>
locals ==
    << current_id, raw_entries, remaining, transaction_id, unknown_count,
       entry, account2, ask, unknown, error_message,
       account_str >>

\* positions at which no run is in progress: before the first run, after
\* process returned, after a kill, after click.Abort, after an exception
Stopped == {"idle", "done", "crashed", "aborted", "failed"}

NoFile == ""
NoDescription == [year |-> 0, id |-> 0, name |-> "", comment |-> ""]
NoEntry == NewJournalEntry(0, NoDescription)
NotRendered == [ok |-> FALSE, error |-> "not rendered"]

(***************************************************************************)
(* TrackingFile.                                                           *)
(***************************************************************************)
\* '{}:{}\n'.format(import_filename, value), without the newline
FormatLine(name, value) == name \o ":" \o IntToStr(value)

\* s[0] and int(s[1]) of l.strip().split(':')
LineKey(line) == SplitFirst(Strip(line), ":")
LineValue(line) == ParseInt(SplitSecond(Strip(line), ":"))

\* values[import_filename] if import_filename in values else -1, where
\* values is the dict built from the lines (a later line overrides)
RECURSIVE ReadValue(_, _)
ReadValue(lines, name) ==
    IF Len(lines) = 0 THEN -1
    ELSE IF LineKey(lines[Len(lines)]) = name
    THEN LineValue(lines[Len(lines)])
    ELSE ReadValue(SubSeq(lines, 1, Len(lines) - 1), name)

\* the data the current_id setter writes back
RewriteLines(lines, name, value) ==
    [i \in 1..Len(lines) |->
        IF StartsWith(lines[i], name) THEN FormatLine(name, value)
        ELSE lines[i]]

\* TrackingFile.__init__: the file after the constructor
TrackingAfterInit(t, name) ==
    IF t.exists THEN t
    ELSE [exists |-> TRUE, lines |-> << FormatLine(name, -1) >>]

\* TrackingFile.__init__: _current_id after the constructor
CurrentIdAfterInit(t, name) ==
    IF t.exists THEN ReadValue(t.lines, name) ELSE -1

\* current_id.setter: the file after the assignment
TrackingAfterSet(t, name, value) ==
    [t EXCEPT !.lines = RewriteLines(t.lines, name, value)]

(***************************************************************************)
(* Initial states.                                                         *)
(***************************************************************************)
InitState ==
    /\ tracking = [exists |-> FALSE, lines |-> << >>]
    /\ journal = << >>
    /\ jbuf = << >>
    /\ pc = "idle"
    /\ runs = 0
    /\ prev = [file |-> NoFile, completed |-> FALSE, rows |-> << >>,
               cursor |-> -1]
    /\ import_filename = NoFile
    /\ current_id = -1
    /\ raw_entries = << >>
    /\ remaining = << >>
    /\ transaction_id = 0
    /\ unknown_count = 0
    /\ account2 = "None"
    /\ ask = FALSE
    /\ unknown = FALSE
    /\ error_message = ""
    /\ account_str = ""
    /\ rendered = NotRendered

InitProgram == InitState /\ entry = NoEntry

\* no run yet: no tracking file, an empty journal, any input files
Init ==
    /\ input \in {fs \in [FileNames -> SeqsUpTo(ImportRows, MaxRows)] :
                     TotalRows(fs) <= MaxRows}
    /\ InitProgram

\* one statement of one row for convert_transaction, the other files empty
InitConvert ==
    /\ input \in {[f \in FileNames |->
                      IF f = "jan.csv" THEN << r >> ELSE << >>] :
                  r \in ConvertRows}
    /\ InitProgram

(***************************************************************************)
(* Journal items.  The file a run imports is not part of the journal text; *)
(* it is recorded with each item (src) to tell the runs apart.             *)
(***************************************************************************)
\* "; journal created on ..." or "; journal continued on ..."
HeaderItem(src, created) ==
    [kind |-> "header", src |-> src, created |-> created]

EntryItem(src, text) == [kind |-> "entry", src |-> src, text |-> text]

\* postings whose second account depends on the number of runs so far
WithAccounts_ByRun(e, acc2, amount) ==
    [e EXCEPT !.account1 = Account(BANK_PAYMENT_ACCOUNT, amount),
              !.account2 = Account(IF runs > 1 THEN MISC ELSE acc2,
                                   0 - amount)]

\* postings that both carry the amount with its own sign
WithAccounts_SameSign(e, acc2, amount) ==
    [e EXCEPT !.account1 = Account(BANK_PAYMENT_ACCOUNT, amount),
              !.account2 = Account(acc2, amount)]

\* entry.account1 = Account(account1, amount);
\* entry.account2 = Account(account2, -amount)
WithAccounts(e, acc2, amount) ==
    [e EXCEPT !.account1 = Account(BANK_PAYMENT_ACCOUNT, amount),
              !.account2 = Account(acc2, 0 - amount)]

\* transaction_id = self.tracking_file.current_id + 1
FirstTransactionId(cid) == cid + 1

\* a counter that counts an unknown transaction twice
CountUnknown_Twice(n) == n + 2

\* self.unknown_count += 1
CountUnknown(n) == n + 1

\* a slice that starts one element early
SliceFrom_OneEarlier(sequence, start) ==
    SubSeq(sequence, IF start > 0 THEN start ELSE 1, Len(sequence))

\* sequence[start:] for start >= 0
SliceFrom(sequence, start) == SubSeq(sequence, start + 1, Len(sequence))

\* the raw entry convert_transaction is working on
CurrentRaw == Head(remaining)

ResetLocals ==
    /\ current_id' = -1
    /\ raw_entries' = << >>
    /\ remaining' = << >>
    /\ transaction_id' = 0
    /\ unknown_count' = 0
    /\ entry' = NoEntry
    /\ account2' = "None"
    /\ ask' = FALSE
    /\ unknown' = FALSE
    /\ error_message' = ""
    /\ account_str' = ""

(***************************************************************************)
(* Actions of one run: main, CSVProcessor.__init__, process,               *)
(* convert_transaction.                                                    *)
(***************************************************************************)
\* main: CSVProcessor(input_csv, output_journal) builds the TrackingFile
Start(f) ==
    /\ pc \in Stopped
    /\ runs < MaxRuns
    /\ runs' = runs + 1
    /\ prev' = [file |-> import_filename, completed |-> pc = "done",
                rows |-> raw_entries,
                cursor |-> CurrentIdAfterInit(tracking, f)]
    /\ import_filename' = f
    /\ tracking' = TrackingAfterInit(tracking, f)
    /\ current_id' = CurrentIdAfterInit(tracking, f)
    /\ pc' = "begin"
    /\ raw_entries' = << >>
    /\ remaining' = << >>
    /\ transaction_id' = 0
    /\ unknown_count' = 0
    /\ entry' = NoEntry
    /\ account2' = "None"
    /\ ask' = FALSE
    /\ unknown' = FALSE
    /\ error_message' = ""
    /\ account_str' = ""
    /\ UNCHANGED << input, journal, jbuf, rendered >>

\* the only run of a behaviour
StartOnce(f) == pc = "idle" /\ Start(f)

\* process up to the loop: the header is written and flushed, the rows are
\* read and sorted; a row that does not parse raises and ends the run
ProcessBegin ==
    /\ pc = "begin"
    /\ journal' = Append(journal \o jbuf,
                         HeaderItem(import_filename, current_id = -1))
    /\ jbuf' = << >>
    /\ IF \A i \in 1..Len(input[import_filename]) :
             RowParses(input[import_filename][i])
       THEN /\ raw_entries' = RawEntries(input[import_filename])
            /\ unknown_count' = 0
            /\ transaction_id' = FirstTransactionId(current_id)
            /\ remaining' = SliceFrom(SortedByDate(raw_entries'),
                                      transaction_id')
            /\ pc' = "loop"
       ELSE /\ pc' = "failed"
            /\ UNCHANGED << raw_entries, remaining, unknown_count,
                            transaction_id >>
    /\ UNCHANGED << input, tracking, runs, prev, import_filename, current_id,
                    entry, account2, ask, unknown, error_message,
                    account_str, rendered >>

\* a convert_transaction that asks 'Is this correct?' for every transaction
\* a rule matched
ConvertTransaction_AlwaysAsks ==
    /\ pc = "loop"
    /\ remaining # << >>
    /\ LET raw == CurrentRaw
           d   == Classify(raw.amount, Description(raw.name, raw.comment))
           e   == NewJournalEntry(raw.date,
                     [year |-> Year(raw.date), id |-> transaction_id,
                      name |-> raw.name, comment |-> raw.comment])
       IN  /\ account2' = d.account2
           /\ ask' = d.ask
           /\ unknown' = d.unknown
           /\ entry' = e
           /\ IF d.unknown
              THEN /\ unknown_count' = CountUnknown(unknown_count)
                   /\ pc' = "manual"
              ELSE /\ pc' = "confirm"
                   /\ UNCHANGED unknown_count
    /\ UNCHANGED << files, runs, prev, import_filename, current_id,
                    raw_entries, remaining, transaction_id, error_message,
                    account_str, rendered >>

\* convert_transaction up to its first prompt, or to its return when there
\* is none
ConvertTransaction ==
    /\ pc = "loop"
    /\ remaining # << >>
    /\ LET raw == CurrentRaw
           d   == Classify(raw.amount, Description(raw.name, raw.comment))
           e   == NewJournalEntry(raw.date,
                     [year |-> Year(raw.date), id |-> transaction_id,
                      name |-> raw.name, comment |-> raw.comment])
       IN  /\ account2' = d.account2
           /\ ask' = d.ask
           /\ unknown' = d.unknown
           /\ IF d.ask
              THEN /\ entry' = e
                   /\ pc' = "confirm"
                   /\ UNCHANGED unknown_count
              ELSE IF d.unknown
              THEN /\ entry' = e
                   /\ unknown_count' = CountUnknown(unknown_count)
                   /\ pc' = "manual"
              ELSE /\ entry' = WithAccounts(e, d.account2, raw.amount)
                   /\ pc' = "write"
                   /\ UNCHANGED unknown_count
    /\ UNCHANGED << files, runs, prev, import_filename, current_id,
                    raw_entries, remaining, transaction_id, error_message,
                    account_str,
                    rendered >>

\* a confirmation whose refusal is not counted as unknown
Confirm_RefusalUncounted(answer) ==
    /\ pc = "confirm"
    /\ IF answer
       THEN /\ entry' = WithAccounts(entry, account2, CurrentRaw.amount)
            /\ pc' = "write"
            /\ UNCHANGED unknown
       ELSE /\ unknown' = TRUE
            /\ pc' = "manual"
            /\ UNCHANGED entry
    /\ UNCHANGED << files, runs, prev, import_filename, current_id,
                    raw_entries, remaining, transaction_id, unknown_count,
                    account2, ask, error_message, account_str, rendered >>

\* the answer to 'Is this correct?'
Confirm(answer) ==
    /\ pc = "confirm"
    /\ IF answer
       THEN /\ entry' = WithAccounts(entry, account2, CurrentRaw.amount)
            /\ pc' = "write"
            /\ UNCHANGED << unknown, unknown_count >>
       ELSE /\ unknown' = TRUE
            /\ unknown_count' = CountUnknown(unknown_count)
            /\ pc' = "manual"
            /\ UNCHANGED entry
    /\ UNCHANGED << files, runs, prev, import_filename, current_id,
                    raw_entries, remaining, transaction_id, account2, ask,
                    error_message, account_str, rendered >>

\* the answer to 'Do you want to enter the account manually'
OfferManual(answer) ==
    /\ pc = "manual"
    /\ IF answer
       THEN /\ pc' = "account"
            /\ UNCHANGED entry
       ELSE /\ entry' = WithAccounts(
                           [entry EXCEPT !.tags =
                               Append(@, "UNKNOWN_TRANSACTION")],
                           account2, CurrentRaw.amount)
            /\ pc' = "write"
    /\ UNCHANGED << files, runs, prev, import_filename, current_id,
                    raw_entries, remaining, transaction_id, unknown_count,
                    account2, ask, unknown, error_message,
                    account_str, rendered >>

\* a validator that accepts every answer
ValidAccount_Anything(text) == TRUE

\* the validator of the account prompt
ValidAccount(text) == Strip(text) = "" \/ text \in all_accounts

\* an answer the validator accepts
EnterAccount(text) ==
    /\ pc = "account"
    /\ ValidAccount(text)
    /\ LET chosen == IF Strip(text) # "" THEN text ELSE account2
       IN  /\ account2' = chosen
           /\ entry' = WithAccounts(entry, chosen, CurrentRaw.amount)
    /\ error_message' = ""
    /\ account_str' = text
    /\ pc' = "write"
    /\ UNCHANGED << files, runs, prev, import_filename, current_id,
                    raw_entries, remaining, transaction_id, unknown_count,
                    ask, unknown, rendered >>

\* an answer the validator rejects: the prompt stays open
RejectAccount(text) ==
    /\ pc = "account"
    /\ ~ValidAccount(text)
    /\ error_message' = "Invalid account name"
    /\ UNCHANGED account_str
    /\ UNCHANGED << files, pc, runs, prev, import_filename, current_id,
                    raw_entries, remaining, transaction_id, unknown_count,
                    entry, account2, ask, unknown, rendered >>

\* an interrupt at the account prompt that counts the transaction again
InterruptAccount_Recount ==
    /\ pc = "account"
    /\ pc' = "manual"
    /\ error_message' = ""
    /\ unknown_count' = CountUnknown(unknown_count)
    /\ UNCHANGED << files, runs, prev, import_filename, current_id,
                    raw_entries, remaining, transaction_id, entry, account2,
                    ask, unknown, account_str, rendered >>

\* KeyboardInterrupt at the account prompt: continue
InterruptAccount ==
    /\ pc = "account"
    /\ pc' = "manual"
    /\ error_message' = ""
    /\ UNCHANGED account_str
    /\ UNCHANGED << files, runs, prev, import_filename, current_id,
                    raw_entries, remaining, transaction_id, unknown_count,
                    entry, account2, ask, unknown, rendered >>

\* click.confirm raises Abort on an interrupt or end of input, the account
\* prompt raises EOFError on end of input: the exception leaves process
AbortPrompt ==
    /\ pc \in {"confirm", "manual", "account"}
    /\ pc' = IF pc = "account" THEN "failed" ELSE "aborted"
    /\ journal' = journal \o jbuf
    /\ jbuf' = << >>
    /\ ResetLocals
    /\ UNCHANGED << input, tracking, runs, prev, import_filename, rendered >>

\* output_journal.write(entry.journal_str); _check may raise
WriteEntry ==
    /\ pc = "write"
    /\ LET text == journal_str(entry)
       IN  IF text.ok
           THEN /\ jbuf' = Append(jbuf, EntryItem(import_filename, text))
                /\ pc' = "flush"
                /\ UNCHANGED << journal, locals >>
           ELSE /\ pc' = "failed"
                /\ journal' = journal \o jbuf
                /\ jbuf' = << >>
                /\ ResetLocals
    /\ UNCHANGED << input, tracking, runs, prev, import_filename, rendered >>

\* a flush that leaves the written text in the buffer
FlushJournal_Unflushed ==
    /\ pc = "flush"
    /\ pc' = "advance"
    /\ UNCHANGED << input, tracking, journal, jbuf, runs, prev,
                    import_filename, locals, rendered >>

\* output_journal.flush()
FlushJournal ==
    /\ pc = "flush"
    /\ journal' = journal \o jbuf
    /\ jbuf' = << >>
    /\ pc' = "advance"
    /\ UNCHANGED << input, tracking, runs, prev, import_filename, locals,
                    rendered >>

\* self.tracking_file.current_id = transaction_id; transaction_id += 1;
\* the for loop moves on
AdvanceCursor ==
    /\ pc = "advance"
    /\ current_id' = transaction_id
    /\ tracking' = TrackingAfterSet(tracking, import_filename, transaction_id)
    /\ transaction_id' = transaction_id + 1
    /\ remaining' = Tail(remaining)
    /\ entry' = NoEntry
    /\ account2' = "None"
    /\ ask' = FALSE
    /\ unknown' = FALSE
    /\ account_str' = ""
    /\ pc' = "loop"
    /\ UNCHANGED << input, journal, jbuf, runs, prev, import_filename,
                    raw_entries, unknown_count, error_message, rendered >>

\* the loop is exhausted: print("Amount unknown: ...") and return
Finish ==
    /\ pc = "loop"
    /\ remaining = << >>
    /\ pc' = "done"
    /\ UNCHANGED << files, runs, prev, import_filename, locals, rendered >>

\* the process is killed during a run.  Text written and not flushed is
\* lost or reaches the disk; a kill inside the setter, between truncate and
\* the write of the data, leaves the tracking file empty.
Crash ==
    /\ pc \notin Stopped
    /\ pc' = "crashed"
    /\ journal' \in {journal, journal \o jbuf}
    /\ jbuf' = << >>
    /\ IF pc = "advance"
       THEN tracking' \in {tracking, [tracking EXCEPT !.lines = << >>]}
       ELSE UNCHANGED tracking
    /\ ResetLocals
    /\ UNCHANGED << input, runs, prev, import_filename, rendered >>

\* between two runs the bank appends a row to a statement
AppendRow(f, row) ==
    /\ pc \in Stopped
    /\ TotalRows(input) < MaxRows
    /\ input' = [input EXCEPT ![f] = Append(@, row)]
    /\ UNCHANGED << tracking, journal, jbuf, pc, runs, prev, import_filename,
                    locals, rendered >>

\* the steps of process and convert_transaction that need no answer
RunSteps ==
    \/ ProcessBegin
    \/ ConvertTransaction
    \/ WriteEntry
    \/ FlushJournal
    \/ AdvanceCursor
    \/ Finish

\* the steps taken at a prompt
PromptSteps ==
    \/ \E answer \in BOOLEAN : Confirm(answer)
    \/ \E answer \in BOOLEAN : OfferManual(answer)
    \/ \E text \in TypedAccounts : EnterAccount(text)
    \/ \E text \in TypedAccounts : RejectAccount(text)
    \/ InterruptAccount
    \/ AbortPrompt

\* repeated imports of statements, with kills; the rows of Init reach no
\* prompt
Next ==
    \/ \E f \in FileNames : Start(f)
    \/ RunSteps
    \/ Crash

Spec == Init /\ [][Next]_vars

\* the same, with statements that grow between the runs
NextGrow ==
    \/ Next
    \/ \E f \in FileNames : \E row \in ImportRows : AppendRow(f, row)

SpecGrow == Init /\ [][NextGrow]_vars

\* one run over one row, with the user at the prompts
NextConvert ==
    \/ \E f \in FileNames : StartOnce(f)
    \/ RunSteps
    \/ PromptSteps

SpecConvert == InitConvert /\ [][NextConvert]_vars

(***************************************************************************)
(* journal_str on free-standing entries: any of the four accounts present  *)
(* or absent, with any small value.                                        *)
(***************************************************************************)
PostingValues == (0 - MaxPosting)..MaxPosting

AnyAccount == {None} \cup {Account(MISC, v) : v \in PostingValues}

InitRender ==
    /\ input = [f \in FileNames |-> << >>]
    /\ InitState
    /\ \E a1 \in AnyAccount, a2 \in AnyAccount, a3 \in AnyAccount,
          a4 \in AnyAccount, tags \in {<< >>, << "UNKNOWN_TRANSACTION" >>} :
          entry = [NewJournalEntry(20230105, NoDescription) EXCEPT
                      !.account1 = a1, !.account2 = a2, !.account3 = a3,
                      !.account4 = a4, !.tags = tags]

\* text = entry.journal_str
Render ==
    /\ rendered = NotRendered
    /\ rendered' = journal_str(entry)
    /\ UNCHANGED << files, pc, runs, prev, import_filename, locals >>

NextRender == Render

SpecRender == InitRender /\ [][NextRender]_vars

(***************************************************************************)
(* One run on a longer statement, started in a directory an earlier run    *)
(* may have left: the tracking file holds the cursor c of jan.csv and the  *)
(* journal the entries 0..c.  A statement may hold one row that does not   *)
(* parse; such a statement is imported into a fresh directory.             *)
(***************************************************************************)
\* rows with an amount float() rejects and a date parse_date rejects
MalformedRows ==
    {Row("20230104", "abc", "Af", "Dirk", ""),
     Row("onbekend", "12,00", "Af", "Dirk", "")}

\* statements of 1..MaxFileRows rows that all parse
GoodStatements == SeqsUpTo(ImportRows, MaxFileRows) \ {<< >>}

\* statements in which one row, at any position, does not parse
BadStatements ==
    UNION {{[rows EXCEPT ![k] = bad] :
               k \in 1..Len(rows), bad \in MalformedRows} :
           rows \in GoodStatements}

\* the journal a completed part of an import of rows left: the header and
\* the entries of the transactions 0..c
PriorJournal(f, rows, c) ==
    LET sorted == SortedByDate(RawEntries(rows))
        item(i) ==
            EntryItem(f,
                journal_str(
                    WithAccounts(
                        NewJournalEntry(sorted[i].date,
                            [year |-> Year(sorted[i].date), id |-> i - 1,
                             name |-> sorted[i].name,
                             comment |-> sorted[i].comment]),
                        Classify(sorted[i].amount,
                                 Description(sorted[i].name,
                                             sorted[i].comment)).account2,
                        sorted[i].amount)))
    IN  << HeaderItem(f, TRUE) >> \o [i \in 1..(c + 1) |-> item(i)]

InitResume ==
    /\ \E rows \in GoodStatements \cup BadStatements :
          /\ input = [f \in FileNames |->
                         IF f = "jan.csv" THEN rows ELSE << >>]
          /\ \E c \in -1..(Len(rows) - 1) :
                /\ rows \in BadStatements => c = -1
                /\ IF c = -1
                   THEN /\ tracking = [exists |-> FALSE, lines |-> << >>]
                        /\ journal = << >>
                   ELSE /\ tracking = [exists |-> TRUE,
                                       lines |-> << FormatLine("jan.csv", c) >>]
                        /\ journal = PriorJournal("jan.csv", rows, c)
    /\ jbuf = << >>
    /\ pc = "idle"
    /\ runs = 0
    /\ prev = [file |-> NoFile, completed |-> FALSE, rows |-> << >>,
               cursor |-> -1]
    /\ import_filename = NoFile
    /\ current_id = -1
    /\ raw_entries = << >>
    /\ remaining = << >>
    /\ transaction_id = 0
    /\ unknown_count = 0
    /\ entry = NoEntry
    /\ account2 = "None"
    /\ ask = FALSE
    /\ unknown = FALSE
    /\ error_message = ""
    /\ account_str = ""
    /\ rendered = NotRendered

NextResume ==
    \/ \E f \in FileNames : StartOnce(f)
    \/ RunSteps

SpecResume == InitResume /\ [][NextResume]_vars

(***************************************************************************)
(* One run over a statement of several rows with the user at the prompts.  *)
(***************************************************************************)
\* a row the rules decide without a question, a row whose account is
\* proposed to the user, and a row no rule matches
PromptRows ==
    {Row("20230103", "25,00", "Af", "Lidl", ""),
     Row("20230105", "9,50", "Af", "Cafe de Jaren", "pin"),
     Row("20230104", "9,50", "Af", "Bol.com", "order 1")}

InitPrompts ==
    /\ input \in {[f \in FileNames |->
                      IF f = "jan.csv" THEN rows ELSE << >>] :
                  rows \in SeqsUpTo(PromptRows, MaxPromptRows)}
    /\ InitProgram

SpecPrompts == InitPrompts /\ [][NextConvert]_vars

\* positions at which the program has a step of its own to take
Running == {"begin", "loop", "write", "flush", "advance"}

\* the same run with a scheduler and a user: the program takes its next
\* step when it has one, and a prompt that is shown again and again is
\* eventually given an answer that does not cancel it.  The condition on
\* RunSteps is WF_vars(RunSteps) with its enabling condition written out:
\* a step of RunSteps is possible exactly at the positions of Running.
SpecPromptsFair ==
    /\ SpecPrompts
    /\ WF_vars(\E f \in FileNames : StartOnce(f))
    /\ <>[](pc \in Running) => []<><<RunSteps>>_vars
    /\ SF_vars(\E answer \in BOOLEAN : Confirm(answer))
    /\ SF_vars(\E answer \in BOOLEAN : OfferManual(answer))
    /\ SF_vars(\E text \in TypedAccounts : EnterAccount(text))

(***************************************************************************)
(* Properties.                                                             *)
(***************************************************************************)
\* positions at which the header of the current run is in the journal
PastHeader ==
    {"loop", "confirm", "manual", "account", "write", "flush", "advance",
     "done"}

\* the position of the last header among the items j
LastHeader(j) ==
    CHOOSE i \in 1..Len(j) :
        /\ j[i].kind = "header"
        /\ \A k \in (i + 1)..Len(j) : j[k].kind # "header"

\* the entries written since the header of the current run
EmittedThisRun ==
    LET j == journal \o jbuf IN SubSeq(j, LastHeader(j) + 1, Len(j))

\* the transaction an entry item renders
RawOf(item) ==
    [date |-> item.text.date,
     amount |-> item.text.postings[1].value,
     name |-> item.text.description.name,
     comment |-> item.text.description.comment]

Count(sequence, x) ==
    Cardinality({i \in 1..Len(sequence) : sequence[i] = x})

\* the flushed entries of file f with transaction id n
EntriesOf(f, n) ==
    {i \in 1..Len(journal) :
        /\ journal[i].kind = "entry"
        /\ journal[i].src = f
        /\ journal[i].text.description.id = n}

\* the lines of the tracking file whose key is g
KeyLines(lines, g) == SelectSeq(lines, LAMBDA line : LineKey(line) = g)

IsPrefixOf(a, b) == Len(a) <= Len(b) /\ SubSeq(b, 1, Len(a)) = a

\* C1: a run on the file the previous run imported, that run having
\* completed and the file being the same, writes no entry.
C1_SecondRunEmitsNothing ==
    ( /\ pc \in PastHeader
      /\ prev.file = import_filename
      /\ prev.completed
      /\ prev.rows = RawEntries(input[import_filename]) )
    => EmittedThisRun = << >>

\* C2: when a run completes on the file on which the previous run was
\* killed, every transaction of the file has exactly one entry in the
\* journal.
C2_ExactlyOneEntryAfterResume ==
    ( /\ pc = "done"
      /\ prev.file = import_filename
      /\ ~prev.completed )
    => \A n \in 0..(Len(raw_entries) - 1) :
          Cardinality(EntriesOf(import_filename, n)) = 1

\* C3: every value the tracking file holds for a file is -1 or the id of a
\* transaction of that file whose entry is in the flushed journal.
C3_CursorOnlyAfterFlush ==
    \A i \in 1..Len(tracking.lines) :
        LineValue(tracking.lines[i]) >= 0
        => EntriesOf(LineKey(tracking.lines[i]),
                     LineValue(tracking.lines[i])) # {}

\* C3: the tracking file holds the id of the second transaction of a file
C3_Witness ==
    /\ pc = "loop"
    /\ \E i \in 1..Len(tracking.lines) : LineValue(tracking.lines[i]) = 1

\* C4: after a run that wrote entries up to transaction k, a new
\* TrackingFile for the same file reads current_id = k.
C4_AdvancePersisted ==
    (pc = "done" /\ EmittedThisRun # << >>)
    => CurrentIdAfterInit(tracking, import_filename) = transaction_id - 1

\* C5: the assignment to current_id for one file leaves the lines of every
\* other file in the tracking file as they were.
C5_OtherKeysUnchanged ==
    [][ (pc = "advance" /\ pc' = "loop")
        => \A g \in FileNames \ {import_filename} :
              KeyLines(tracking'.lines, g) = KeyLines(tracking.lines, g)
      ]_vars

\* C6: a completed run on a file that is the file of the previous,
\* completed run with rows appended has written exactly one entry for each
\* appended row and none for a row imported before.
C6_OnlyAppendedRowsEmitted ==
    ( /\ pc = "done"
      /\ prev.file = import_filename
      /\ prev.completed
      /\ IsPrefixOf(prev.rows, raw_entries) )
    => LET appended == SubSeq(raw_entries, Len(prev.rows) + 1,
                              Len(raw_entries))
           emitted  == [i \in 1..Len(EmittedThisRun) |->
                           RawOf(EmittedThisRun[i])]
       IN  \A r \in {RawEntry(row) : row \in ImportRows} :
              Count(emitted, r) = Count(appended, r)

\* C7: the entry convert_transaction returns has the payment account with
\* the amount as account1, an account of the taxonomy with the negated
\* amount as account2 and no other account, and every entry in the journal
\* has exactly these two postings, which sum to 0.
C7_TwoBalancedPostings ==
    /\ pc = "write"
       => /\ entry.account1 = Account(BANK_PAYMENT_ACCOUNT, CurrentRaw.amount)
          /\ entry.account2 = Account(account2, 0 - CurrentRaw.amount)
          /\ account2 \in all_accounts
          /\ entry.account3 = None
          /\ entry.account4 = None
    /\ \A i \in 1..Len(journal) :
          journal[i].kind = "entry"
          => LET p == journal[i].text.postings
             IN  /\ Len(p) = 2
                 /\ p[1].name = BANK_PAYMENT_ACCOUNT
                 /\ p[2].name \in all_accounts
                 /\ p[1].value + p[2].value = 0

\* C7: an entry is returned after the proposal was refused and an account
\* was typed
C7_Witness ==
    /\ pc = "write"
    /\ ask
    /\ unknown
    /\ entry.account2 = Account(GIFTS, 0 - CurrentRaw.amount)
    /\ CurrentRaw.amount # 0

\* the sum of the values of the accounts present in e
PresentSum(e) ==
    LET v(a) == IF IsPresent(a) THEN a.value ELSE 0
    IN  v(e.account1) + v(e.account2) + v(e.account3) + v(e.account4)

PresentCount(e) == Len(SelectSeq(AccountSlots(e), IsPresent))

\* C8: journal_str raises, and returns no text, for an entry whose present
\* accounts do not sum to zero and for an entry with fewer than two
\* accounts present.
C8_RenderRejectsUnbalanced ==
    ( /\ rendered # NotRendered
      /\ (PresentSum(entry) # 0 \/ PresentCount(entry) < 2) )
    => ~rendered.ok

\* C8: journal_str raised for an entry with three accounts present whose
\* first two balance
C8_Witness ==
    /\ rendered # NotRendered
    /\ ~rendered.ok
    /\ PresentCount(entry) = 3
    /\ IsPresent(entry.account1)
    /\ IsPresent(entry.account2)
    /\ entry.account1.value + entry.account2.value = 0
    /\ PresentSum(entry) # 0

\* the first rule, in source order, whose condition holds
FirstRule(amount, d) ==
    CHOOSE k \in Rules :
        /\ RulePredicate(k, amount, d)
        /\ \A j \in 1..(k - 1) : ~RulePredicate(j, amount, d)

\* C9: what convert_transaction assigns to account2, ask and unknown is the
\* outcome of the first rule in source order whose condition holds; for an
\* outflow that matches a food keyword and 'Verzekering' it is the food
\* account.
C9_FirstMatchWins ==
    [][ (pc = "loop" /\ pc' \in {"confirm", "manual", "write"})
        => LET amount == CurrentRaw.amount
               d == Description(CurrentRaw.name, CurrentRaw.comment)
           IN  /\ Decision(account2', ask', unknown')
                    = RuleOutcome(FirstRule(amount, d), amount, d)
               /\ ( /\ amount < 0
                    /\ match(d, food_keywords)
                    /\ match(d, VerzekeringArgs)
                    /\ ~match(d, SavingsArgs) )
                  => account2' = FOOD_AND_GROCERIES
      ]_vars

\* C9: an outflow that matches a food keyword and 'Verzekering' was
\* classified
C9_Witness ==
    /\ pc = "write"
    /\ CurrentRaw.amount < 0
    /\ match(Description(CurrentRaw.name, CurrentRaw.comment), food_keywords)
    /\ match(Description(CurrentRaw.name, CurrentRaw.comment),
             VerzekeringArgs)
    /\ account2 = FOOD_AND_GROCERIES

\* no rule but an else branch applies to the transaction
NoRuleMatches(raw) ==
    FirstRule(raw.amount, Description(raw.name, raw.comment))
        \in FallbackRules

\* the only transaction of the file being imported
OnlyRaw == raw_entries[1]

\* C10: for a transaction no rule matches, convert_transaction leaves
\* unknown set, ask unset and account2 the catch-all account, MISC for an
\* outflow and Income:Other for an inflow, and the run counts it once.
C10_FallbackCountedOnce ==
    ( /\ pc \in PastHeader
      /\ Len(raw_entries) = 1
      /\ OnlyRaw.amount # 0
      /\ NoRuleMatches(OnlyRaw) )
    => /\ (pc = "loop" /\ remaining # << >>) => unknown_count = 0
       /\ (pc # "loop" \/ remaining = << >>) => unknown_count = 1
       /\ pc = "manual"
          => /\ unknown
             /\ ~ask
             /\ account2 = IF OnlyRaw.amount < 0 THEN MISC ELSE INCOME_OTHER

\* C10: a run over an inflow that no rule matches has ended
C10_Witness ==
    /\ pc = "done"
    /\ Len(raw_entries) = 1
    /\ OnlyRaw.amount > 0
    /\ NoRuleMatches(OnlyRaw)
    /\ unknown_count = 1
    /\ journal[Len(journal)].text.postings[2].name = INCOME_OTHER

\* what the chain of rules decides for a transaction
RowDecision(raw) ==
    LET d == Description(raw.name, raw.comment)
    IN  RuleOutcome(FirstRule(raw.amount, d), raw.amount, d)

\* positions at which the program waits for an answer
AtPrompt == {"confirm", "manual", "account"}

\* the entries of the flushed journal
JournalEntries == SelectSeq(journal, LAMBDA item : item.kind = "entry")

\* the transaction of the scenario: 9,50 Af to Albert Heijn 1234
AlbertHeijnRaw ==
    [date |-> 20230105, amount |-> 0 - 950, name |-> "Albert Heijn 1234",
     comment |-> ""]

\* C11: a transaction for which the rules set neither ask nor unknown
\* reaches no prompt, leaves unknown_count at 0 and is written without a tag
\* with the postings (payment account, amount), (rule's account, -amount);
\* the outflow of 9,50 to Albert Heijn 1234 is such a transaction and gets
\* the food account.
C11_AutoWithoutPrompt ==
    /\ ( /\ pc \in PastHeader
         /\ Len(raw_entries) = 1
         /\ ~RowDecision(OnlyRaw).ask
         /\ ~RowDecision(OnlyRaw).unknown )
       => /\ pc \notin AtPrompt
          /\ unknown_count = 0
          /\ pc = "write"
             => /\ entry.tags = << >>
                /\ SelectSeq(AccountSlots(entry), IsPresent)
                     = << Account(BANK_PAYMENT_ACCOUNT, OnlyRaw.amount),
                          Account(RowDecision(OnlyRaw).account2,
                                  0 - OnlyRaw.amount) >>
          /\ \A i \in 1..Len(JournalEntries) :
                /\ JournalEntries[i].text.tags = << >>
                /\ JournalEntries[i].text.postings
                     = << Account(BANK_PAYMENT_ACCOUNT, OnlyRaw.amount),
                          Account(RowDecision(OnlyRaw).account2,
                                  0 - OnlyRaw.amount) >>
    /\ (pc \in PastHeader /\ raw_entries = << AlbertHeijnRaw >>)
       => RowDecision(OnlyRaw) = Decision(FOOD_AND_GROCERIES, FALSE, FALSE)

\* C11: the run over the outflow to Albert Heijn 1234 has ended with its
\* entry in the journal
C11_Witness ==
    /\ pc = "done"
    /\ raw_entries = << AlbertHeijnRaw >>
    /\ Len(JournalEntries) = 1
    /\ JournalEntries[1].text.postings
         = << Account(BANK_PAYMENT_ACCOUNT, 0 - 950),
              Account(FOOD_AND_GROCERIES, 950) >>
    /\ unknown_count = 0

\* C12: the program asks 'Is this correct?' only for a transaction whose
\* rule sets ask; on yes the entry gets the proposed account, no tag and
\* unknown_count is unchanged; on no the transaction becomes unknown,
\* unknown_count grows by 1 and the program offers manual entry with the
\* entry still without accounts and tags.
C12_ConfirmOrEscalate ==
    /\ [](pc = "confirm"
          => /\ ask
             /\ ~unknown
             /\ RowDecision(CurrentRaw) = Decision(account2, TRUE, FALSE))
    /\ [][ /\ (pc = "confirm" /\ pc' = "write")
              => /\ entry' = WithAccounts(entry, account2, CurrentRaw.amount)
                 /\ entry'.tags = << >>
                 /\ account2' = account2
                 /\ unknown_count' = unknown_count
                 /\ ~unknown'
           /\ (pc = "confirm" /\ pc' = "manual")
              => /\ unknown'
                 /\ unknown_count' = unknown_count + 1
                 /\ entry' = entry
                 /\ entry.tags = << >>
                 /\ ~IsPresent(entry.account1)
                 /\ ~IsPresent(entry.account2)
           /\ pc = "confirm" => pc' \in {"write", "manual", "aborted"}
         ]_vars

\* C12: a proposed account was refused and manual entry is offered
C12_Witness ==
    /\ pc = "manual"
    /\ ask
    /\ unknown
    /\ unknown_count = 1
    /\ account2 = RowDecision(CurrentRaw).account2

\* C13: every step that leaves the 'Is this correct?' prompt finalizes the
\* entry or offers manual entry: a cancelled prompt escalates like a
\* refusal and the run goes on.
C13_CancelledConfirmEscalates ==
    [][ pc = "confirm" => pc' \in {"write", "manual"} ]_vars

\* the catch-all account for an amount
CatchAll(amount) == IF amount < 0 THEN MISC ELSE INCOME_OTHER

\* C14: when the user declines manual entry the entry is finalized with the
\* catch-all account of its direction and the tag UNKNOWN_TRANSACTION, and
\* an entry finalized in any other way has no tag.
C14_DeclinedKeepsCatchAll ==
    [][ /\ (pc = "manual" /\ pc' = "write" /\ CurrentRaw.amount # 0)
           => /\ entry'.tags = << "UNKNOWN_TRANSACTION" >>
              /\ entry'.account2
                   = Account(CatchAll(CurrentRaw.amount),
                             0 - CurrentRaw.amount)
        /\ (pc \in {"loop", "confirm", "account"} /\ pc' = "write")
           => entry'.tags = << >>
      ]_vars

\* C15: the account of every finalized entry is an account of the taxonomy;
\* an answer at the account prompt finalizes the entry only if it is blank,
\* and then account2 stays as it was, or if it is a label of the taxonomy,
\* and then account2 is that label; a rejected answer leaves the prompt open
\* and changes nothing but the message; an interrupt at the prompt returns
\* to the manual-entry choice with the entry, the journal and unknown_count
\* as they were.
C15_ManualEntryValidated ==
    /\ [](/\ pc = "write" => entry.account2.name \in all_accounts
          /\ \A i \in 1..Len(JournalEntries) :
                JournalEntries[i].text.postings[2].name \in all_accounts)
    /\ [][ /\ (pc = "account" /\ pc' = "write")
              => /\ Strip(account_str') = "" => account2' = account2
                 /\ Strip(account_str') # ""
                    => account_str' \in all_accounts /\ account2' = account_str'
                 /\ entry' = WithAccounts(entry, account2', CurrentRaw.amount)
                 /\ entry'.tags = << >>
           /\ (pc = "account" /\ pc' = "account")
              => /\ error_message' = "Invalid account name"
                 /\ UNCHANGED << entry, account2, journal, jbuf, tracking,
                                 unknown_count >>
           /\ (pc = "account" /\ pc' = "manual")
              => /\ entry.tags = << >>
                 /\ ~IsPresent(entry.account2)
                 /\ UNCHANGED << entry, account2, journal, jbuf, tracking,
                                 unknown_count, unknown >>
         ]_vars

\* C15: a blank answer finalized the entry of an unknown transaction with
\* the catch-all account it had
C15_Witness ==
    /\ pc = "write"
    /\ unknown
    /\ ~ask
    /\ account_str = " "
    /\ entry.tags = << >>
    /\ entry.account2.name = CatchAll(CurrentRaw.amount)

EmittedIds ==
    [i \in 1..Len(EmittedThisRun) |-> EmittedThisRun[i].text.description.id]

\* C17 (as stated): a completed run that read the cursor 4 for a statement
\* of 6 rows has written two entries, with the ids 5 and 6.
C17_CursorFourLeavesTwo ==
    (pc = "done" /\ prev.cursor = 4 /\ Len(raw_entries) = 6)
    => EmittedIds = << 5, 6 >>

\* C17 (amended): a completed run that read the cursor 4 for a statement of
\* 6 rows has written exactly one entry: the transaction at the last
\* position of the date-sorted statement, with the id 5.
C17_CursorFourLeavesOne ==
    (pc = "done" /\ prev.cursor = 4 /\ Len(raw_entries) = 6)
    => /\ EmittedIds = << 5 >>
       /\ RawOf(EmittedThisRun[1]) = SortedByDate(raw_entries)[6]
       /\ Len(JournalEntries) = 6

\* C17: a run that read the cursor 4 for a statement of 6 rows has ended
C17_Witness ==
    /\ pc = "done"
    /\ prev.cursor = 4
    /\ Len(raw_entries) = 6
    /\ Len(EmittedThisRun) = 1
    /\ CurrentIdAfterInit(tracking, import_filename) = 5

\* the statement being imported holds a row that does not parse
HasMalformedRow ==
    /\ import_filename # NoFile
    /\ \E i \in 1..Len(input[import_filename]) :
          input[import_filename][i] \in MalformedRows

\* C18: a run on a statement with a row that does not parse, at whatever
\* position, ends with an exception before any transaction is converted: no
\* entry is written, for no row, and the cursor stays -1.
C18_MalformedRowAborts ==
    HasMalformedRow
    => /\ pc \in {"begin", "failed"}
       /\ JournalEntries = << >>
       /\ jbuf = << >>
       /\ raw_entries = << >>
       /\ CurrentIdAfterInit(tracking, import_filename) = -1

\* C18: a run has failed on a statement whose last row, after rows that
\* parse, does not
C18_Witness ==
    /\ pc = "failed"
    /\ Len(input[import_filename]) >= 2
    /\ input[import_filename][Len(input[import_filename])] \in MalformedRows
    /\ input[import_filename][1] \notin MalformedRows
    /\ Len(journal) = 1

\* the text holds the word, whatever the case of its letters
ContainsWord(text, word) ==
    LET t == FoldCase(text)
        w == FoldCase(word)
    IN  \E i \in 1..(Len(t) - Len(w) + 1) : SubSeq(t, i, i + Len(w) - 1) = w

\* C19: a transaction whose description contains 'spaarrekening', in any
\* case of letters, gets the savings account without a prompt, whatever the
\* sign of its amount and whatever other rule its description matches.
C19_SavingsBeforeDirection ==
    ( /\ pc \in PastHeader
      /\ Len(raw_entries) = 1
      /\ ContainsWord(Description(OnlyRaw.name, OnlyRaw.comment),
                      "spaarrekening") )
    => /\ pc \notin AtPrompt
       /\ unknown_count = 0
       /\ pc = "write"
          => /\ account2 = BANK_SAVINGS
             /\ ~ask
             /\ ~unknown
             /\ entry.tags = << >>

\* the cursor a new TrackingFile would read for the file of the current run
PersistedCursor == CurrentIdAfterInit(tracking, import_filename)

\* the position in the date-sorted statement at which the current run began
FirstPosition == FirstTransactionId(prev.cursor)

\* within a run that read the cursor c, the entries written so far are the
\* transactions at the positions c+1, c+2, ... of the date-sorted statement,
\* each with its position as id; the transaction in hand is the next one,
\* nothing of an earlier transaction is left unflushed, and current_id is
\* the position before it; when process returns, current_id is the last
\* position of the statement
HandledInOrder ==
    pc \in PastHeader
    => LET n == Len(EmittedThisRun)
       IN  /\ \A i \in 1..n :
                 /\ EmittedIds[i] = FirstPosition + i - 1
                 /\ RawOf(EmittedThisRun[i])
                       = SortedByDate(raw_entries)[FirstPosition + i]
           /\ transaction_id
                 = FirstPosition + (IF pc \in {"flush", "advance"}
                                    THEN n - 1 ELSE n)
           /\ current_id = transaction_id - 1
           /\ pc # "flush" => jbuf = << >>
           /\ pc \in (AtPrompt \cup {"write"})
              => /\ entry.description.id = transaction_id
                 /\ CurrentRaw = SortedByDate(raw_entries)[transaction_id + 1]
           /\ pc = "done"
              => /\ remaining = << >>
                 /\ current_id = Len(raw_entries) - 1

\* C20: within a run that read the cursor c, the transactions are handled
\* one at a time in the order of the date-sorted statement from position
\* c+1 on, each is written with its position as id and the cursor of the
\* file is advanced to it before the next one is classified, and when the
\* run completes the cursor of the file is the last position of the
\* statement.
C20_InOrderToLastPosition ==
    /\ HandledInOrder
    /\ (pc = "loop" /\ EmittedThisRun # << >>)
       => PersistedCursor = transaction_id - 1
    /\ pc = "done" => PersistedCursor = Len(raw_entries) - 1

\* the transactions of the current run whose cursor was advanced
DoneRows ==
    SubSeq(SortedByDate(raw_entries), FirstPosition + 1, current_id + 1)

\* the transactions among DoneRows that no rule matched
UnknownDone ==
    {i \in 1..Len(DoneRows) : RowDecision(DoneRows[i]).unknown}

\* the transactions among DoneRows whose account was proposed to the user
AskedDone ==
    {i \in 1..Len(DoneRows) : RowDecision(DoneRows[i]).ask}

\* positions at which the local variable unknown tells whether the
\* transaction in hand was escalated
Resolving == {"manual", "account", "write", "flush", "advance"}

\* 1 when the transaction in hand was escalated, 0 otherwise
InHand == IF pc \in Resolving /\ unknown THEN 1 ELSE 0

\* C21: unknown_count starts a run at 0 and grows by exactly 1 on each step
\* that escalates a transaction (no rule matched, or the proposal was
\* refused) and on no other step of the run, the account prompt cancelled
\* and offered again included; a transaction is escalated at most once, as the
\* program is at the loop head and at the confirmation once per transaction;
\* so the counter lies between the number of finished transactions no rule
\* matched and that number plus the number of finished proposals, plus one
\* for an escalated transaction in hand.
C21_CountsEscalations ==
    /\ [](pc \in PastHeader
          => /\ Cardinality(UnknownDone) + InHand <= unknown_count
             /\ unknown_count
                   <= Cardinality(UnknownDone \cup AskedDone) + InHand
             /\ pc \in {"manual", "account"} => unknown)
    /\ [][ /\ (pc = "begin" /\ pc' = "loop") => unknown_count' = 0
           /\ (pc \in PastHeader /\ pc' \in PastHeader)
              => unknown_count'
                    = unknown_count
                      + (IF pc \in {"loop", "confirm"} /\ pc' = "manual"
                         THEN 1 ELSE 0)
           /\ (pc' = "loop" /\ pc # "loop") => pc \in {"begin", "advance"}
           /\ (pc' = "confirm" /\ pc # "confirm") => pc = "loop"
           /\ (pc' = "manual" /\ pc \notin {"loop", "confirm", "manual"})
              => pc = "account"
         ]_vars

\* C21: a run over two transactions has ended that escalated both, the
\* first by a refused proposal and the second because no rule matched
C21_Witness ==
    /\ pc = "done"
    /\ Len(raw_entries) = 2
    /\ unknown_count = 2
    /\ Cardinality(UnknownDone) = 1
    /\ Cardinality(AskedDone) = 1

\* positions at which a classified transaction is not finalized yet
InResolution == AtPrompt \cup {"write", "flush", "advance"}

\* every classified transaction gets its entry into the journal and the
\* cursor of the file advanced to it
EveryTransactionFinalized ==
    \A n \in 0..(MaxPromptRows - 1) :
        (pc \in InResolution /\ transaction_id = n)
        ~> /\ PersistedCursor = n
           /\ Len(JournalEntries) = n + 1
           /\ JournalEntries[n + 1].text.description.id = n

\* a run that began ends: process returns or an exception leaves it
RunTerminates == (pc = "begin") ~> (pc \in Stopped)

\* manual entry is offered again only after an interrupt at the account
\* prompt, and the program gets back to no earlier prompt
LoopOnlyByInterrupt ==
    [][ /\ (pc = "account" /\ pc' = "manual") => InterruptAccount
        /\ (pc = "manual" /\ pc' \in PastHeader)
           => pc' \in {"account", "write"}
        /\ (pc = "account" /\ pc' \in PastHeader)
           => pc' \in {"account", "manual", "write"}
      ]_vars

\* C22: with a user who eventually gives each prompt an answer that does
\* not cancel it, every classified transaction is finalized (entry written,
\* cursor advanced), the run ends, and manual entry is offered again only
\* after the account prompt was cancelled.
C22_EveryTransactionFinalized ==
    /\ EveryTransactionFinalized
    /\ RunTerminates
    /\ LoopOnlyByInterrupt

\* the same for the behaviours in which no exception leaves a prompt
FinalizedUnlessAborted ==
    [](pc \notin {"aborted", "failed"})
    => /\ EveryTransactionFinalized
       /\ RunTerminates
       /\ <>(pc = "done")

\* the rules of the income chain before its else branch
IncomeRules == {k \in Rules : 20 < k /\ k < 29}

\* the description of the only transaction of the file being imported
OnlyDescription == Description(OnlyRaw.name, OnlyRaw.comment)

\* C23: a transaction of amount 0 whose description does not contain
\* 'spaarrekening' gets account2, ask and unknown from the chain of the
\* income rules, also when an expense rule matches its description; when no
\* income rule matches it gets Income:Other, is unknown, is not proposed
\* and is counted once.
C23_ZeroIsInflow ==
    ( /\ pc \in PastHeader
      /\ Len(raw_entries) = 1
      /\ OnlyRaw.amount = 0
      /\ ~ContainsWord(OnlyDescription, "spaarrekening") )
    => LET inc == ClassifyIncome(0, OnlyDescription)
       IN  /\ pc \in AtPrompt
              => /\ account2 = inc.account2
                 /\ ask = inc.ask
                 /\ ~ask => unknown = inc.unknown
           /\ pc = "confirm" => ~unknown
           /\ (pc = "write" /\ ~unknown)
              => /\ account2 = inc.account2
                 /\ ~inc.unknown
           /\ (\A k \in IncomeRules : ~RulePredicate(k, 0, OnlyDescription))
              => /\ inc = Decision(INCOME_OTHER, FALSE, TRUE)
                 /\ pc # "confirm"
                 /\ pc \in Resolving => (unknown /\ ~ask)
                 /\ pc \in {"manual", "account"} => account2 = INCOME_OTHER
                 /\ pc \in (Resolving \cup {"done"}) => unknown_count = 1

\* C23: manual entry is offered for a transaction of amount 0 that the
\* expense chain would give the food account: it has Income:Other
C23_Witness ==
    /\ pc = "manual"
    /\ Len(raw_entries) = 1
    /\ OnlyRaw.amount = 0
    /\ ClassifyExpense(0, OnlyDescription)
          = Decision(FOOD_AND_GROCERIES, FALSE, FALSE)
    /\ account2 = INCOME_OTHER
    /\ unknown
    /\ unknown_count = 1
====
